---- MODULE Spec2Model ----
(***************************************************************************)
(* Model of the gemini-review command line tool: the CLI action of         *)
(* src/cli.ts, the gateway GeminiReviewer.reviewCode of                    *)
(* src/gemini-reviewer.ts and the result formatter of src/formatter.ts.    *)
(*                                                                         *)
(* JavaScript values are tagged records, a string that the program only    *)
(* concatenates or prints is a sequence of chunks, and a response text is  *)
(* a sequence of JSON tokens that JSONParse really parses.                 *)
(***************************************************************************)
EXTENDS Integers, Sequences, FiniteSets, TLC

\* ------------------------------------------------------------------------
\* Bounds of the model
\* ------------------------------------------------------------------------

\* longest issues array a generated response payload carries
MaxIssues == 2

\* ------------------------------------------------------------------------
\* JavaScript values
\* ------------------------------------------------------------------------

Undef == [t |-> "undef"]

JNull == [t |-> "null"]

Bool(b) == [t |-> "bool", b |-> b]

Num(n) == [t |-> "num", n |-> n]

Str(s) == [t |-> "str", s |-> s]

Arr(a) == [t |-> "arr", a |-> a]

\* an object is the sequence of its members [k, v] in source order
Obj(o) == [t |-> "obj", o |-> o]

Member(k, v) == [k |-> k, v |-> v]

\* JavaScript truthiness, as used by `!x`, `x || d` and `if (x)`
Truthy(v) ==
  CASE v.t = "undef" -> FALSE
    [] v.t = "null" -> FALSE
    [] v.t = "bool" -> v.b
    [] v.t = "num" -> v.n # 0
    [] v.t = "str" -> v.s # ""
    [] OTHER -> TRUE

\* a || d
Or(v, d) == IF Truthy(v) THEN v ELSE d

\* does the object carry the key at all
HasKey(v, k) == v.t = "obj" /\ \E i \in 1..Len(v.o) : v.o[i].k = k

\* reading v.k throws a TypeError exactly on null and undefined
GetThrows(v) == v.t \in {"null", "undef"}

\* v.k for a value that is not null or undefined: the last member with that
\* key (JSON.parse keeps the last duplicate), undefined when there is none
Get(v, k) ==
  IF HasKey(v, k)
    THEN LET last == CHOOSE i \in 1..Len(v.o) :
                       /\ v.o[i].k = k
                       /\ \A j \in (i+1)..Len(v.o) : v.o[j].k # k
         IN v.o[last].v
    ELSE Undef

\* ------------------------------------------------------------------------
\* JSON text: a sequence of tokens
\* ------------------------------------------------------------------------

Punct(c) == [k |-> c]

TNum(n) == [k |-> "num", n |-> n]

TStr(s) == [k |-> "str", s |-> s]

\* text that is no JSON token: prose, a markdown fence
TJunk(s) == [k |-> "junk", s |-> s]

RECURSIVE Serialize(_)
RECURSIVE SerializeElems(_, _)
RECURSIVE SerializeMembers(_, _)

\* the JSON text of a value, as the remote model writes it
Serialize(v) ==
  CASE v.t = "null" -> <<Punct("null")>>
    [] v.t = "bool" -> <<Punct(IF v.b THEN "true" ELSE "false")>>
    [] v.t = "num" -> <<TNum(v.n)>>
    [] v.t = "str" -> <<TStr(v.s)>>
    [] v.t = "arr" -> <<Punct("[")>> \o SerializeElems(v.a, 1) \o <<Punct("]")>>
    [] v.t = "obj" -> <<Punct("{")>> \o SerializeMembers(v.o, 1) \o <<Punct("}")>>

SerializeElems(a, i) ==
  IF i > Len(a) THEN <<>>
  ELSE (IF i > 1 THEN <<Punct(",")>> ELSE <<>>)
         \o Serialize(a[i]) \o SerializeElems(a, i + 1)

SerializeMembers(o, i) ==
  IF i > Len(o) THEN <<>>
  ELSE (IF i > 1 THEN <<Punct(",")>> ELSE <<>>)
         \o <<TStr(o[i].k), Punct(":")>> \o Serialize(o[i].v)
         \o SerializeMembers(o, i + 1)

ParseFail == [ok |-> FALSE]

ParseOk(v, next) == [ok |-> TRUE, v |-> v, next |-> next]

RECURSIVE ParseValue(_, _)
RECURSIVE ParseElems(_, _, _)
RECURSIVE ParseMembers(_, _, _)

\* one JSON value starting at token i
ParseValue(text, i) ==
  IF i > Len(text) THEN ParseFail
  ELSE LET tok == text[i] IN
    CASE tok.k = "null" -> ParseOk(JNull, i + 1)
      [] tok.k = "true" -> ParseOk(Bool(TRUE), i + 1)
      [] tok.k = "false" -> ParseOk(Bool(FALSE), i + 1)
      [] tok.k = "num" -> ParseOk(Num(tok.n), i + 1)
      [] tok.k = "str" -> ParseOk(Str(tok.s), i + 1)
      [] tok.k = "[" ->
           IF i + 1 <= Len(text) /\ text[i + 1].k = "]"
             THEN ParseOk(Arr(<<>>), i + 2)
             ELSE ParseElems(text, i + 1, <<>>)
      [] tok.k = "{" ->
           IF i + 1 <= Len(text) /\ text[i + 1].k = "}"
             THEN ParseOk(Obj(<<>>), i + 2)
             ELSE ParseMembers(text, i + 1, <<>>)
      [] OTHER -> ParseFail

\* the elements of an array after "[" or ",": a value, then "," or "]"
ParseElems(text, i, acc) ==
  LET r == ParseValue(text, i) IN
  IF ~r.ok \/ r.next > Len(text) THEN ParseFail
  ELSE CASE text[r.next].k = "," -> ParseElems(text, r.next + 1, Append(acc, r.v))
         [] text[r.next].k = "]" -> ParseOk(Arr(Append(acc, r.v)), r.next + 1)
         [] OTHER -> ParseFail

\* the members of an object after "{" or ",": key ":" value, then "," or "}"
ParseMembers(text, i, acc) ==
  IF i + 1 > Len(text) \/ text[i].k # "str" \/ text[i + 1].k # ":" THEN ParseFail
  ELSE LET r == ParseValue(text, i + 2) IN
    IF ~r.ok \/ r.next > Len(text) THEN ParseFail
    ELSE LET acc2 == Append(acc, Member(text[i].s, r.v)) IN
      CASE text[r.next].k = "," -> ParseMembers(text, r.next + 1, acc2)
        [] text[r.next].k = "}" -> ParseOk(Obj(acc2), r.next + 1)
        [] OTHER -> ParseFail

\* JSON.parse(text): the value, or a SyntaxError (ok = FALSE) when the text
\* is not exactly one JSON value
JSONParse(text) ==
  LET r == ParseValue(text, 1) IN
  IF r.ok /\ r.next = Len(text) + 1 THEN [ok |-> TRUE, v |-> r.v] ELSE ParseFail

\* ------------------------------------------------------------------------
\* Strings the program builds: sequences of chunks
\* ------------------------------------------------------------------------

\* a literal string
Text(s) == <<[k |-> "lit", s |-> s]>>

\* new Error(message)
Error(message) == [isError |-> TRUE, name |-> "Error", message |-> message]

\* the TypeError the runtime raises for a property read on null/undefined
\* or a call of a missing method
TypeError(message) == [isError |-> TRUE, name |-> "TypeError", message |-> message]

\* a thrown value that is not an Error instance
NonError(v) == [isError |-> FALSE, value |-> v]

NoError == [isError |-> FALSE, value |-> Undef]

\* ------------------------------------------------------------------------
\* Inputs: the response payloads the remote model may send
\* ------------------------------------------------------------------------

\* the severities an issue object of a payload may carry; "info" is outside
\* the enumeration of the response schema, which nothing checks locally
PayloadSeverities == {"critical", "high", "medium", "low", "info"}

PayloadRuleIds == {Undef, Str("team-strict-requirements")}

\* issues whose ruleId is null, is the empty string, or names no rule file
OtherRuleIdIssues ==
  {[severity |-> "high", ruleId |-> JNull],
   [severity |-> "low", ruleId |-> Str("")],
   [severity |-> "critical", ruleId |-> Str("no-such-rule")]}

\* an object without its undefined members
ObjOf(members) == Obj(SelectSeq(members, LAMBDA m : m.v # Undef))

Issue(severity, ruleId) ==
  ObjOf(<<Member("severity", severity), Member("ruleId", ruleId)>>)

IssueElements ==
  {Issue(Str(s), r) : s \in PayloadSeverities, r \in PayloadRuleIds}
    \cup {Issue(Str(i.severity), i.ruleId) : i \in OtherRuleIdIssues}
    \cup {Issue(Undef, Undef), JNull}

RECURSIVE SeqsUpTo(_, _)
\* the sequences over S of length at most n
SeqsUpTo(S, n) ==
  IF n = 0 THEN {<<>>}
  ELSE LET shorter == SeqsUpTo(S, n - 1) IN
    shorter \cup {Append(q, x) : q \in {r \in shorter : Len(r) = n - 1}, x \in S}

IssueArrays == {Arr(a) : a \in SeqsUpTo(IssueElements, MaxIssues)}

\* what the member `issues` of a payload may be (Undef: the member is absent)
IssuesValues ==
  IssueArrays \cup {Undef, JNull, Str(""), Str("none"), Num(0), Bool(FALSE), Obj(<<>>)}

SummaryValues == {Undef, JNull, Str(""), Str("Solid component.")}

ScoreValues == {Undef, JNull, Num(0), Num(85), Str("")}

ReviewData(issues, summary, overallScore) ==
  ObjOf(<<Member("issues", issues), Member("summary", summary),
          Member("overallScore", overallScore)>>)

SampleIssues ==
  {Undef, Arr(<<>>), Arr(<<Issue(Str("high"), Undef)>>),
   Arr(<<Issue(Str("critical"), Str("team-strict-requirements")),
         Issue(Str("low"), Undef)>>)}

\* every issues value with a fixed summary and score, a few issues values
\* with every summary and score, and the payloads that are no object
Payloads ==
  {ReviewData(i, Str("Solid component."), Num(85)) : i \in IssuesValues}
    \cup {ReviewData(i, s, o) : i \in SampleIssues, s \in SummaryValues, o \in ScoreValues}
    \cup {JNull, Num(7), Str("ok"), Bool(TRUE), Arr(<<>>),
          Obj(<<Member("summary", Str("first")), Member("summary", Str("last"))>>)}

\* payloads whose text is cut off (the output-token limit) at every length
TruncatedPayloads ==
  {ReviewData(Arr(<<Issue(Str("critical"), Undef)>>), Str("Solid component."), Num(85)),
   Num(7)}

TruncatedTexts ==
  UNION {{SubSeq(Serialize(p), 1, n) : n \in 0..(Len(Serialize(p)) - 1)} : p \in TruncatedPayloads}

\* texts with something that is no JSON around or inside the payload
JunkTexts ==
  {<<TJunk("Here is the review:")>> \o Serialize(ReviewData(Arr(<<>>), Str("Solid component."), Num(85))),
   Serialize(Arr(<<>>)) \o <<Punct("]")>>,
   <<Punct("["), TNum(1), Punct(","), Punct("]")>>,
   <<Punct("{"), TStr("issues"), Punct("}")>>,
   <<TJunk("Service unavailable")>>}

ResponseTexts == {Serialize(p) : p \in Payloads} \cup TruncatedTexts \cup JunkTexts

\* response.candidates[0].content.parts: the thought/thinking markers
PartsValues ==
  {<<>>,
   <<[thought |-> Undef], [thought |-> Str("The effect has no cleanup.")]>>}

\* response.candidates[0].finishReason: MAX_TOKENS for a text that was cut
\* off at the output-token limit
finishReasonOf(text) == IF text \in TruncatedTexts THEN "MAX_TOKENS" ELSE "STOP"

\* a resolved call: the response object
Responses ==
  {[text |-> t, parts |-> <<>>, finishReason |-> finishReasonOf(t)] : t \in ResponseTexts}
    \cup {[text |-> Serialize(ReviewData(Arr(<<>>), Str("Solid component."), Num(85))),
           parts |-> p, finishReason |-> "STOP"] : p \in PartsValues}

\* a rejected call: what generateContent throws
Rejections ==
  {Error(Text("API key not valid")), Error(Text("fetch failed")),
   Error(Text("[503 Service Unavailable] The model is overloaded")),
   NonError(Str("aborted"))}

\* ------------------------------------------------------------------------
\* Inputs: the environment of one run
\* ------------------------------------------------------------------------

\* process.env.GOOGLE_API_KEY
\* --model: not given, or a model name
ModelFlagValues == {Undef, Str("gemini-2.5-pro")}

\* GEMINI_MODEL: not set, set to the empty string, or a model name
EnvModelValues == {Undef, Str(""), Str("gemini-2.5-flash")}

ApiKeyValues == {Undef, Str(""), Str("AIza-key")}

\* the positional argument [file]
FilePathValues == {Undef, Str(""), Str("App.tsx"), Str("main.js"), Str("gone.ts")}

\* the files on disk, with their content as a sequence of lines
Disk ==
  [p \in {"App.tsx", "main.js"} |->
     IF p = "App.tsx" THEN <<"export function App() {", "  return null;", "}">>
     ELSE <<"module.exports = 1;">>]

existsSync(path) == path \in DOMAIN Disk

readFileSync(path) == Disk[path]

extname(path) ==
  CASE path = "App.tsx" -> ".tsx"
    [] path = "main.js" -> ".js"
    [] path = "gone.ts" -> ".ts"
    [] OTHER -> ""

\* languageMap[ext] || 'typescript'
languageMap(ext) ==
  CASE ext = ".ts" -> "typescript"
    [] ext = ".tsx" -> "tsx"
    [] ext = ".js" -> "javascript"
    [] ext = ".jsx" -> "jsx"
    [] OTHER -> "typescript"

\* ------------------------------------------------------------------------
\* Inputs: the rules directory
\* ------------------------------------------------------------------------

\* most entries of the rules directory itself
MaxEntries == 2

\* a run of whitespace in a markdown body
Ws == [k |-> "ws"]

\* the text of a rule file: the frontmatter as gray-matter reads it (yaml is
\* "ok", "none" when the file has no frontmatter block, "invalid" when the
\* block is no YAML) and the body behind it
FileText(yaml, data, body) == [yaml |-> yaml, data |-> data, body |-> body]

Frontmatter(id, title, type, impact, category, tags) ==
  ObjOf(<<Member("id", id), Member("title", title), Member("type", type),
          Member("impact", impact), Member("category", category),
          Member("tags", tags)>>)

Tags(list) == Arr([n \in 1..Len(list) |-> Str(list[n])])

\* an entry of a directory: what readdirSync names and statSync says of it
MdFile(name, readable, text) ==
  [kind |-> "file", name |-> name, ext |-> ".md", readable |-> readable, text |-> text]

OtherFile(name, ext) ==
  [kind |-> "file", name |-> name, ext |-> ext, readable |-> TRUE,
   text |-> FileText("none", Obj(<<>>), <<>>)]

\* an entry statSync throws on (a dangling link)
BrokenEntry(name) == [kind |-> "broken", name |-> name]

\* readable = FALSE: readdirSync throws on it
Dir(name, readable, entries) ==
  [kind |-> "dir", name |-> name, readable |-> readable, entries |-> entries]

PrinciplesFile ==
  MdFile("performance-principles.md", TRUE,
    FileText("ok",
      Frontmatter(Str("react-performance-principles"),
                  Str("React Performance Optimization Principles"),
                  Str("principle"), Str("HIGH"), Str("performance"),
                  Tags(<<"react", "performance", "hooks", "rendering">>)),
      <<Ws>> \o Text("## Core Principle") \o <<Ws>>))

RequirementsFile ==
  MdFile("strict-requirements.md", TRUE,
    FileText("ok",
      Frontmatter(Str("team-strict-requirements"),
                  Str("Team Code Standards (Strict Requirements)"),
                  Str("requirement"), Str("HIGH"), Str("best-practice"),
                  Tags(<<"team-standards", "requirements">>)),
      <<Ws>> \o Text("## Team-Specific Standards") \o <<Ws>>
        \o Text("These are **mandatory** standards") \o <<Ws>>))

\* a rule file that leaves the type out
TypeSafetyFile ==
  MdFile("type-safety.md", TRUE,
    FileText("ok",
      Frontmatter(Str("typescript-type-safety"), Str("TypeScript type safety and common pitfalls"),
                  Undef, Str("HIGH"), Str("correctness"),
                  Tags(<<"typescript", "types", "safety">>)),
      <<Ws>> \o Text("## Problem") \o <<Ws>>))

\* only id and title in the frontmatter
MinimalFile ==
  MdFile("minimal.md", TRUE,
    FileText("ok", Frontmatter(Str("x"), Str("T"), Undef, Undef, Undef, Undef),
      <<Ws, Ws>> \o Text("Body") \o <<Ws>>))

NoIdFile ==
  MdFile("no-id.md", TRUE,
    FileText("ok",
      Frontmatter(Undef, Str("Untitled"), Str("requirement"), Str("LOW"), Undef,
                  Tags(<<"react">>)),
      Text("No id")))

NoTitleFile ==
  MdFile("no-title.md", TRUE,
    FileText("ok",
      Frontmatter(Str("no-title"), Undef, Str("principle"), Undef, Undef,
                  Tags(<<"typescript">>)),
      Text("No title")))

\* a markdown file without a frontmatter block (a README)
NoFrontmatterFile ==
  MdFile("README.md", TRUE, FileText("none", Obj(<<>>), Text("# Rules")))

\* type and impact outside the documented values
OddTypeFile ==
  MdFile("odd-type.md", TRUE,
    FileText("ok",
      Frontmatter(Str("odd-type"), Str("Guideline"), Str("guideline"), Str("URGENT"),
                  Str("style"), Tags(<<"react">>)),
      Text("Prefer small components")))

\* the id of PrinciplesFile once more, as a requirement
SameIdFile ==
  MdFile("performance-copy.md", TRUE,
    FileText("ok",
      Frontmatter(Str("react-performance-principles"), Str("React Performance (copy)"),
                  Str("requirement"), Str("MEDIUM"), Str("performance"),
                  Tags(<<"react">>)),
      Text("Copy")))

InvalidYamlFile ==
  MdFile("invalid-yaml.md", TRUE, FileText("invalid", Obj(<<>>), Text("Broken")))

\* readFileSync throws on it
UnreadableFile ==
  MdFile("unreadable.md", FALSE,
    FileText("ok",
      Frontmatter(Str("unreadable"), Str("Unreadable"), Undef, Undef, Undef, Undef),
      Text("Secret")))

LeafEntries ==
  {PrinciplesFile, RequirementsFile, MinimalFile, NoIdFile, NoTitleFile,
   NoFrontmatterFile, OddTypeFile, SameIdFile, InvalidYamlFile, UnreadableFile,
   OtherFile("notes.txt", ".txt"), BrokenEntry("dangling")}

SubDirs ==
  {Dir("react", TRUE, <<PrinciplesFile, MinimalFile>>),
   Dir("typescript", TRUE, <<NoIdFile, TypeSafetyFile>>),
   Dir("broken", TRUE, <<BrokenEntry("dangling"), MinimalFile>>),
   Dir("locked", FALSE, <<RequirementsFile>>)}

\* the rules directories: every sequence of at most MaxEntries entries of
\* different names
RuleTrees ==
  {Dir("rules", TRUE, entries) :
     entries \in {e \in SeqsUpTo(LeafEntries \cup SubDirs, MaxEntries) :
                    \A i, j \in 1..Len(e) : e[i].name = e[j].name => i = j}}

\* the tag lists handed to getRulesByTags and compileRulesForPrompt
TagLists ==
  {<<>>, <<"react">>, <<"react", "typescript">>, <<"python">>}

\* ------------------------------------------------------------------------
\* RuleLoader
\* ------------------------------------------------------------------------

RECURSIVE trimStart(_)
trimStart(content) ==
  IF Len(content) > 0 /\ Head(content) = Ws THEN trimStart(Tail(content)) ELSE content

RECURSIVE trimEnd(_)
trimEnd(content) ==
  IF Len(content) > 0 /\ content[Len(content)] = Ws
    THEN trimEnd(SubSeq(content, 1, Len(content) - 1)) ELSE content

\* content.trim()
trim(content) == trimEnd(trimStart(content))

\* matter(fileContent): data and content, or the exception of the YAML parser
matter(text) ==
  CASE text.yaml = "invalid" -> [ok |-> FALSE]
    [] text.yaml = "none" -> [ok |-> TRUE, data |-> Obj(<<>>), content |-> text.body]
    [] OTHER -> [ok |-> TRUE, data |-> text.data, content |-> text.body]

\* mutant of ruleOf: the body is taken as it stands
ruleOfUntrimmed(data, content) ==
  [id |-> Get(data, "id"),
   title |-> Get(data, "title"),
   type |-> Or(Get(data, "type"), Str("principle")),
   impact |-> Or(Get(data, "impact"), Str("MEDIUM")),
   category |-> Or(Get(data, "category"), Str("general")),
   tags |-> Or(Get(data, "tags"), Arr(<<>>)),
   content |-> content]

\* the rule object literal of loadRuleFile
ruleOf(data, content) ==
  [id |-> Get(data, "id"),
   title |-> Get(data, "title"),
   type |-> Or(Get(data, "type"), Str("principle")),
   impact |-> Or(Get(data, "impact"), Str("MEDIUM")),
   category |-> Or(Get(data, "category"), Str("general")),
   tags |-> Or(Get(data, "tags"), Arr(<<>>)),
   content |-> trim(content)]

\* the loader while it scans: this.rules and the warnings written
Scan(rules, log) == [rules |-> rules, log |-> log]

\* mutant of loadRuleFile: id and title are not asked for
loadRuleFileUnchecked(file, st) ==
  IF ~file.readable
    THEN Scan(st.rules, Append(st.log, [k |-> "couldNotLoad", name |-> file.name]))
  ELSE LET parsed == matter(file.text) IN
    IF ~parsed.ok
      THEN Scan(st.rules, Append(st.log, [k |-> "couldNotLoad", name |-> file.name]))
    ELSE Scan(Append(st.rules, ruleOf(parsed.data, parsed.content)), st.log)

\* loadRuleFile(filePath): a rule is pushed, or a warning written
loadRuleFile(file, st) ==
  IF ~file.readable
    THEN Scan(st.rules, Append(st.log, [k |-> "couldNotLoad", name |-> file.name]))
  ELSE LET parsed == matter(file.text) IN
    IF ~parsed.ok
      THEN Scan(st.rules, Append(st.log, [k |-> "couldNotLoad", name |-> file.name]))
    ELSE IF ~Truthy(Get(parsed.data, "id")) \/ ~Truthy(Get(parsed.data, "title"))
      THEN Scan(st.rules, Append(st.log, [k |-> "skipping", name |-> file.name]))
    ELSE Scan(Append(st.rules, ruleOf(parsed.data, parsed.content)), st.log)

RECURSIVE scanDirectory(_, _)
RECURSIVE scanEntries(_, _, _, _)

\* scanDirectory(dir): one try block around readdirSync and the whole loop
scanDirectory(dir, st) ==
  IF ~dir.readable
    THEN Scan(st.rules, Append(st.log, [k |-> "couldNotScan", name |-> dir.name]))
    ELSE scanEntries(dir, dir.entries, 1, st)

\* mutant of scanEntries: a sub-directory that cannot be read ends the loop
scanEntriesStopping(dir, entries, i, st) ==
  IF i > Len(entries) THEN st
  ELSE LET entry == entries[i] IN
    CASE entry.kind = "broken" ->
           Scan(st.rules, Append(st.log, [k |-> "couldNotScan", name |-> dir.name]))
      [] entry.kind = "dir" ->
           IF entry.readable
             THEN scanEntries(dir, entries, i + 1, scanDirectory(entry, st))
             ELSE scanDirectory(entry, st)
      [] entry.kind = "file" /\ entry.ext = ".md" ->
           scanEntries(dir, entries, i + 1, loadRuleFile(entry, st))
      [] OTHER -> scanEntries(dir, entries, i + 1, st)

\* the loop over the entries from the i-th on; a throwing statSync leaves
\* the loop for the catch of this directory
scanEntries(dir, entries, i, st) ==
  IF i > Len(entries) THEN st
  ELSE LET entry == entries[i] IN
    CASE entry.kind = "broken" ->
           Scan(st.rules, Append(st.log, [k |-> "couldNotScan", name |-> dir.name]))
      [] entry.kind = "dir" ->
           scanEntries(dir, entries, i + 1, scanDirectory(entry, st))
      [] entry.kind = "file" /\ entry.ext = ".md" ->
           scanEntries(dir, entries, i + 1, loadRuleFile(entry, st))
      [] OTHER -> scanEntries(dir, entries, i + 1, st)

\* mutant of loadRules: the collection is not emptied first
loadRulesAppending(rulesDir, rules) == scanDirectory(rulesDir, Scan(rules, <<>>))

\* loadRules(): the collection is emptied, then filled by the scan; `rules`
\* is the collection before the call
loadRules(rulesDir, rules) == scanDirectory(rulesDir, Scan(<<>>, <<>>))

\* rule.tags.includes(tag)
includes(tags, tag) == \E n \in 1..Len(tags.a) : tags.a[n] = Str(tag)

\* mutant of getRulesByTags: a rule must carry every tag of the list
getRulesByAllTags(rules, tags) ==
  SelectSeq(rules, LAMBDA rule : \A n \in 1..Len(tags) : includes(rule.tags, tags[n]))

\* getRulesByTags(tags)
getRulesByTags(rules, tags) ==
  SelectSeq(rules, LAMBDA rule : \E n \in 1..Len(tags) : includes(rule.tags, tags[n]))

PrinciplesHeader == Text("# GUIDING PRINCIPLES (Use these to guide your deep thinking)")

RequirementsHeader == Text("# STRICT REQUIREMENTS (Always enforce these)")

principleBlock(rule) ==
  [k |-> "principle", title |-> rule.title, category |-> rule.category,
   impact |-> rule.impact, content |-> rule.content]

requirementBlock(rule) ==
  [k |-> "requirement", title |-> rule.title, id |-> rule.id,
   impact |-> rule.impact, content |-> rule.content]

NoTags == [t |-> "undef"]

FallbackPrompt ==
  Text("No specific rules loaded. Use general React and TypeScript best practices.")

\* mutant of compileRulesForPrompt: the fallback is given when nothing is
\* loaded, whatever the tags leave
compileRulesForPromptLoadedOnly(rules, tags) ==
  LET rulesToUse == IF tags = NoTags THEN rules ELSE getRulesByTags(rules, tags.a)
      principles == SelectSeq(rulesToUse, LAMBDA r : r.type = Str("principle"))
      requirements == SelectSeq(rulesToUse, LAMBDA r : r.type = Str("requirement"))
  IN IF Len(rules) = 0 THEN FallbackPrompt
     ELSE (IF Len(principles) > 0
             THEN PrinciplesHeader \o [n \in 1..Len(principles) |-> principleBlock(principles[n])]
             ELSE <<>>)
          \o (IF Len(requirements) > 0
                THEN RequirementsHeader
                       \o [n \in 1..Len(requirements) |-> requirementBlock(requirements[n])]
                ELSE <<>>)

\* mutant of compileRulesForPrompt: the rules are written in load order, each
\* under the header of its type
compileRulesForPromptInLoadOrder(rules, tags) ==
  LET rulesToUse == IF tags = NoTags THEN rules ELSE getRulesByTags(rules, tags.a)
      RECURSIVE blocks(_)
      blocks(n) ==
        IF n = 0 THEN <<>>
        ELSE blocks(n - 1)
             \o (CASE rulesToUse[n].type = Str("principle") ->
                        PrinciplesHeader \o <<principleBlock(rulesToUse[n])>>
                    [] rulesToUse[n].type = Str("requirement") ->
                        RequirementsHeader \o <<requirementBlock(rulesToUse[n])>>
                    [] OTHER -> <<>>)
  IN IF Len(rulesToUse) = 0 THEN FallbackPrompt ELSE blocks(Len(rulesToUse))

\* compileRulesForPrompt(tags?): tags is NoTags when the argument is left out
compileRulesForPrompt(rules, tags) ==
  LET rulesToUse == IF tags = NoTags THEN rules ELSE getRulesByTags(rules, tags.a)
      principles == SelectSeq(rulesToUse, LAMBDA r : r.type = Str("principle"))
      requirements == SelectSeq(rulesToUse, LAMBDA r : r.type = Str("requirement"))
  IN IF Len(rulesToUse) = 0 THEN FallbackPrompt
     ELSE (IF Len(principles) > 0
             THEN PrinciplesHeader \o [n \in 1..Len(principles) |-> principleBlock(principles[n])]
             ELSE <<>>)
          \o (IF Len(requirements) > 0
                THEN RequirementsHeader
                       \o [n \in 1..Len(requirements) |-> requirementBlock(requirements[n])]
                ELSE <<>>)

\* the tags of the action when --tags is not given
DefaultTags == [t |-> "list", a |-> <<"react", "typescript">>]

\* the rules directories of the runs of the action
ActionRuleTrees ==
  {Dir("rules", TRUE, <<>>),
   Dir("rules", TRUE,
       <<Dir("react", TRUE, <<PrinciplesFile>>), Dir("team", TRUE, <<RequirementsFile>>),
         Dir("typescript", TRUE, <<TypeSafetyFile>>)>>)}

\* what compileRulesForPrompt hands to the action
RulesPrompts ==
  {compileRulesForPrompt(loadRules(tree, <<>>).rules, DefaultTags) : tree \in ActionRuleTrees}

\* ------------------------------------------------------------------------
\* Program constants
\* ------------------------------------------------------------------------

MaxTokens == 8192

DefaultModel == "gemini-2.0-flash-lite"

NoSummary == Str("No summary provided")

SeverityOrder == <<"critical", "high", "medium", "low">>

\* ------------------------------------------------------------------------
\* GeminiReviewer
\* ------------------------------------------------------------------------

\* buildPrompt(files, rulesPrompt): the fixed framing with the rules text and
\* one section per file
buildPrompt(files, rulesPrompt) ==
  Text("# Code Review Task") \o rulesPrompt \o Text("## Code to Review")
    \o [n \in 1..Len(files) |->
          [k |-> "file", path |-> files[n].path, language |-> files[n].language,
           content |-> files[n].content]]
    \o Text("## Review Instructions")

getSystemInstruction == Text("You are an expert code reviewer")

getResponseSchema ==
  [required |-> {"issues", "summary", "overallScore"},
   severity |-> {"low", "medium", "high", "critical"},
   issueRequired |-> {"severity", "category", "file", "title", "description", "reasoning"}]

\* mutant of requestOf: deep thinking is asked for in the generation config
requestOfThinking(config, files, rulesPrompt) ==
  [model |-> config.model,
   generationConfig |->
     [temperature |-> config.temperature, maxOutputTokens |-> config.maxTokens,
      responseMimeType |-> "application/json", responseSchema |-> getResponseSchema,
      thinking |-> config.enableDeepThinking],
   systemInstruction |-> getSystemInstruction,
   contents |-> buildPrompt(files, rulesPrompt)]

\* the argument of getGenerativeModel and generateContent
requestOf(config, files, rulesPrompt) ==
  [model |-> config.model,
   generationConfig |->
     [temperature |-> config.temperature, maxOutputTokens |-> config.maxTokens,
      responseMimeType |-> "application/json", responseSchema |-> getResponseSchema],
   systemInstruction |-> getSystemInstruction,
   contents |-> buildPrompt(files, rulesPrompt)]

\* extractThinkingTrace(response): the thought markers of the parts, joined,
\* or undefined
extractThinkingTrace(response) ==
  LET thinkingParts == SelectSeq(response.parts, LAMBDA part : Truthy(part.thought)) IN
  IF Len(thinkingParts) > 0
    THEN [t |-> "joined", a |-> [n \in 1..Len(thinkingParts) |-> thinkingParts[n].thought]]
    ELSE Undef

RECURSIVE SumLines(_, _)
\* files.reduce((sum, f) => sum + f.content.split('\n').length, 0)
SumLines(files, n) ==
  IF n = 0 THEN 0 ELSE SumLines(files, n - 1) + Len(files[n].content)

\* mutant of reviewResultOf: the summary is taken without its default
reviewResultOfNoDefault(reviewData, response, files) ==
  [issues |-> Or(Get(reviewData, "issues"), Arr(<<>>)),
   summary |-> Get(reviewData, "summary"),
   overallScore |-> Or(Get(reviewData, "overallScore"), Num(0)),
   thinkingTrace |-> extractThinkingTrace(response),
   filesReviewed |-> [n \in 1..Len(files) |-> files[n].path],
   totalLines |-> SumLines(files, Len(files))]

\* the reviewResult object literal
reviewResultOf(reviewData, response, files) ==
  [issues |-> Or(Get(reviewData, "issues"), Arr(<<>>)),
   summary |-> Or(Get(reviewData, "summary"), NoSummary),
   overallScore |-> Or(Get(reviewData, "overallScore"), Num(0)),
   thinkingTrace |-> extractThinkingTrace(response),
   filesReviewed |-> [n \in 1..Len(files) |-> files[n].path],
   totalLines |-> SumLines(files, Len(files))]

\* mutant of reviewCodeCatch: the message of the original error is dropped
reviewCodeCatchGeneric(error) ==
  Error(Text("Failed to review code: ") \o Text("Unknown error"))

\* the catch of reviewCode: every error of the try block is re-thrown as
\* Error(`Failed to review code: ${message or 'Unknown error'}`)
reviewCodeCatch(error) ==
  Error(Text("Failed to review code: ")
          \o (IF error.isError THEN error.message ELSE Text("Unknown error")))

\* reviewCode after generateContent resolved: the result, or the error
\* raised inside the try block (cause), which the catch wraps
reviewCodeResolved(response, files) ==
  LET parsed == JSONParse(response.text) IN
  IF ~parsed.ok
    THEN [ok |-> FALSE,
          log |-> <<[k |-> "parseFailed", text |-> response.text]>>,
          cause |-> Error(Text("Invalid JSON response from Gemini"))]
  ELSE IF GetThrows(parsed.v)
    THEN [ok |-> FALSE, log |-> <<>>,
          cause |-> TypeError(Text("Cannot read properties of null (reading 'issues')"))]
  ELSE [ok |-> TRUE, log |-> <<>>,
        result |-> reviewResultOf(parsed.v, response, files)]

\* ------------------------------------------------------------------------
\* ResultFormatter
\* ------------------------------------------------------------------------

\* issues.filter(i => i.severity === severity) on an array value
filterSeverity(issues, severity) ==
  SelectSeq(issues, LAMBDA i : Get(i, "severity") = Str(severity))

groupBySeverity(issues) ==
  [severity \in {"critical", "high", "medium", "low"} |-> filterSeverity(issues, severity)]

\* one severity bucket of a group: the header and the issues, nothing when
\* the bucket is empty
printBucket(grouped, severity, isAiDiscovery) ==
  LET issues == grouped[severity] IN
  IF Len(issues) = 0 THEN <<>>
  ELSE <<[k |-> "severityHeader", severity |-> severity, count |-> Len(issues)]>>
         \o [n \in 1..Len(issues) |->
               [k |-> "issue", issue |-> issues[n], isAiDiscovery |-> isAiDiscovery]]

\* mutant of printGroup: the buckets are written from low to critical
printGroupLowFirst(issues, isAiDiscovery) ==
  LET grouped == groupBySeverity(issues) IN
  printBucket(grouped, SeverityOrder[4], isAiDiscovery)
    \o printBucket(grouped, SeverityOrder[3], isAiDiscovery)
    \o printBucket(grouped, SeverityOrder[2], isAiDiscovery)
    \o printBucket(grouped, SeverityOrder[1], isAiDiscovery)

\* for (const severity of ['critical', 'high', 'medium', 'low'])
printGroup(issues, isAiDiscovery) ==
  LET grouped == groupBySeverity(issues) IN
  printBucket(grouped, SeverityOrder[1], isAiDiscovery)
    \o printBucket(grouped, SeverityOrder[2], isAiDiscovery)
    \o printBucket(grouped, SeverityOrder[3], isAiDiscovery)
    \o printBucket(grouped, SeverityOrder[4], isAiDiscovery)

\* result.issues.filter(...) throws a TypeError when issues is no array, and
\* its callback does when an element is null
printResultsThrows(result) ==
  \/ result.issues.t # "arr"
  \/ \E n \in 1..Len(result.issues.a) : GetThrows(result.issues.a[n])

\* printResults(result): what it writes, and whether it returns
printResults(result) ==
  IF printResultsThrows(result)
    THEN [ok |-> FALSE, out |-> <<[k |-> "reviewHeader"]>>,
          error |-> TypeError(Text("result.issues.filter: not a function or null element"))]
  ELSE
    LET issues == result.issues.a
        ruleBased == SelectSeq(issues, LAMBDA i : Truthy(Get(i, "ruleId")))
        aiDiscoveries == SelectSeq(issues, LAMBDA i : ~Truthy(Get(i, "ruleId")))
    IN [ok |-> TRUE,
        out |-> <<[k |-> "reviewHeader"],
                  [k |-> "resultsTable", score |-> result.overallScore,
                   files |-> Len(result.filesReviewed), issues |-> Len(issues)]>>
                \o (IF Truthy(result.summary)
                      THEN <<[k |-> "summary", summary |-> result.summary]>> ELSE <<>>)
                \o <<[k |-> "issuesFound", count |-> Len(issues)],
                     [k |-> "fromTeamRules", count |-> Len(ruleBased)],
                     [k |-> "aiInsightsCount", count |-> Len(aiDiscoveries)]>>
                \o (IF Len(ruleBased) > 0 THEN printGroup(ruleBased, FALSE)
                    ELSE <<[k |-> "noRuleViolations"]>>)
                \o <<[k |-> "aiInsights", count |-> Len(aiDiscoveries)]>>
                \o (IF Len(aiDiscoveries) > 0 THEN printGroup(aiDiscoveries, TRUE)
                    ELSE <<[k |-> "noAdditionalIssues"]>>)
                \o <<[k |-> "footer"]>>]

\* ------------------------------------------------------------------------
\* The CLI action: state
\* ------------------------------------------------------------------------

VARIABLES
  pc,             \* where the action stands
  apiKey,         \* process.env.GOOGLE_API_KEY
  rulesDirExists, \* existsSync(rulesDir)
  filePath,       \* the positional argument
  rulesPrompt,    \* the compiled rules text
  filesToReview,  \* the files handed to reviewCode
  request,        \* the requests sent to the remote model, in order
  outcome,        \* how the generateContent call ended
  result,         \* what reviewCode returned
  thrown,         \* the error on its way to the catch blocks
  printed,        \* how often printResults returned
  console,        \* what was written to the console, in order
  exitCode,       \* the codes handed to process.exit, in order
  modelFlag,      \* the value given with --model, if any
  envModel,       \* process.env.GEMINI_MODEL
  thinking,       \* options.thinking: FALSE when --no-thinking is given
  disk,           \* the rules directory as it is now
  rules,          \* the collection of the RuleLoader (this.rules)
  warnings,       \* what the last loadRules wrote to console.warn
  loadedFrom,     \* the rules directory as the last loadRules found it
  loads,          \* the loadRules calls made so far
  returned        \* the last call of the RuleLoader and what it returned

loaderVars == <<disk, rules, warnings, loadedFrom, loads, returned>>

actionVars ==
  <<pc, apiKey, rulesDirExists, filePath, rulesPrompt, filesToReview, request,
    outcome, result, thrown, printed, console, exitCode, modelFlag, envModel, thinking>>

vars == <<actionVars, loaderVars>>

None == [t |-> "none"]

\* the generateContent calls issued so far
calls == Len(request)

\* mutant of optionsModel: the environment variable overrides the flag
optionsModelEnvFirst ==
  IF Truthy(envModel) THEN envModel
  ELSE IF modelFlag = Undef THEN Str(DefaultModel) ELSE modelFlag

\* options.model: the flag, or the default commander was given for it
optionsModel == IF modelFlag = Undef THEN Or(envModel, Str(DefaultModel)) ELSE modelFlag

config ==
  [model |-> optionsModel, enableDeepThinking |-> thinking, maxTokens |-> MaxTokens,
   temperature |-> "0.1", apiKey |-> apiKey]

Log(k) == <<[k |-> k]>>

\* the loader as its constructor leaves it, over the directory `tree`
NewLoader(tree) ==
  /\ disk = tree
  /\ rules = <<>>
  /\ warnings = <<>>
  /\ loadedFrom = None
  /\ loads = 0
  /\ returned = [op |-> "none"]

Init ==
  /\ pc = "start"
  /\ modelFlag \in ModelFlagValues
  /\ envModel \in EnvModelValues
  /\ thinking = TRUE
  /\ NewLoader(Dir("rules", TRUE, <<>>))
  /\ apiKey \in ApiKeyValues
  /\ rulesDirExists \in BOOLEAN
  /\ filePath \in FilePathValues
  /\ rulesPrompt = <<>>
  /\ filesToReview = <<>>
  /\ request = <<>>
  /\ outcome = None
  /\ result = None
  /\ thrown = NoError
  /\ printed = 0
  /\ console = <<>>
  /\ exitCode = <<>>

\* process.exit(code) after writing the lines `lines`
Exit(lines, code) ==
  /\ console' = console \o lines
  /\ exitCode' = Append(exitCode, code)
  /\ pc' = "exited"

\* ------------------------------------------------------------------------
\* The CLI action: steps
\* ------------------------------------------------------------------------

\* mutant of ValidateApiKey: the key is not looked at before going on
ValidateApiKeySkipped ==
  /\ pc = "start"
  /\ console' = console \o Log("banner")
  /\ pc' = "rulesDir"
  /\ UNCHANGED <<loaderVars, modelFlag, envModel, thinking>>
  /\ UNCHANGED <<apiKey, rulesDirExists, filePath, rulesPrompt, filesToReview,
                 request, outcome, result, thrown, printed, exitCode>>

\* the API key check
ValidateApiKey ==
  /\ pc = "start"
  /\ IF ~Truthy(apiKey)
       THEN Exit(Log("banner") \o Log("apiKeyRequired"), 1)
       ELSE /\ console' = console \o Log("banner")
            /\ pc' = "rulesDir"
            /\ UNCHANGED exitCode
  /\ UNCHANGED <<loaderVars, modelFlag, envModel, thinking>>
  /\ UNCHANGED <<apiKey, rulesDirExists, filePath, rulesPrompt, filesToReview,
                 request, outcome, result, thrown, printed>>

\* the rules directory check
CheckRulesDir ==
  /\ pc = "rulesDir"
  /\ IF ~rulesDirExists
       THEN Exit(Log("rulesDirNotFound"), 1)
       ELSE /\ pc' = "loadRules"
            /\ UNCHANGED <<console, exitCode>>
  /\ UNCHANGED <<loaderVars, modelFlag, envModel, thinking>>
  /\ UNCHANGED <<apiKey, rulesDirExists, filePath, rulesPrompt, filesToReview,
                 request, outcome, result, thrown, printed>>

\* loadRules, the tags and compileRulesForPrompt(tags): the rules text, or
\* the TypeError of rule.tags.includes for a rule whose tags are no list
LoadRules ==
  /\ pc = "loadRules"
  /\ \/ /\ rulesPrompt' \in RulesPrompts
        /\ console' = console \o Log("loadedRules") \o Log("usingRulesTagged")
        /\ pc' = "files"
        /\ UNCHANGED thrown
     \/ /\ thrown' = TypeError(Text("rule.tags.includes is not a function"))
        /\ console' = console \o Log("loadedRules")
        /\ pc' = "outerCatch"
        /\ UNCHANGED rulesPrompt
  /\ UNCHANGED <<loaderVars, modelFlag, envModel, thinking>>
  /\ UNCHANGED <<apiKey, rulesDirExists, filePath, filesToReview, request, outcome,
                 result, printed, exitCode>>

\* loadSingleFile(filePath): the file, or Error(`File not found: ...`)
loadSingleFile(path) ==
  IF ~existsSync(path)
    THEN [ok |-> FALSE,
          error |-> Error(Text("File not found: ") \o <<[k |-> "path", s |-> path]>>)]
    ELSE [ok |-> TRUE,
          files |-> <<[path |-> path, content |-> readFileSync(path),
                       language |-> languageMap(extname(path))]>>]

\* the files to review: the single file, a throw when it is not there, the
\* usage error when no path was given
DetermineFiles ==
  /\ pc = "files"
  /\ IF Truthy(filePath)
       THEN LET loaded == loadSingleFile(filePath.s) IN
            IF loaded.ok
              THEN /\ filesToReview' = loaded.files
                   /\ console' = console \o Log("reviewingFiles")
                   /\ pc' = "review"
                   /\ UNCHANGED <<thrown, exitCode>>
              ELSE /\ thrown' = loaded.error
                   /\ pc' = "outerCatch"
                   /\ UNCHANGED <<filesToReview, console, exitCode>>
       ELSE /\ Exit(Log("filePathRequired"), 1)
            /\ UNCHANGED <<filesToReview, thrown>>
  /\ UNCHANGED <<loaderVars, modelFlag, envModel, thinking>>
  /\ UNCHANGED <<apiKey, rulesDirExists, filePath, rulesPrompt, request, outcome,
                 result, printed>>

\* the reviewer is configured and reviewCode runs up to its await: the one
\* generateContent call goes out
ReviewCodeCall ==
  /\ pc = "review"
  /\ request' = Append(request, requestOf(config, filesToReview, rulesPrompt))
  /\ console' = console \o Log("aiReviewProcess") \o Log("usingModel")
                  \o <<[k |-> "deepThinking", enabled |-> config.enableDeepThinking]>>
  /\ pc' = "awaiting"
  /\ UNCHANGED <<loaderVars, modelFlag, envModel, thinking>>
  /\ UNCHANGED <<apiKey, rulesDirExists, filePath, rulesPrompt, filesToReview,
                 outcome, result, thrown, printed, exitCode>>

\* mutant of GenerateContentRejects: a first failed call is issued again
GenerateContentRejectsRetry ==
  /\ pc = "awaiting"
  /\ \E error \in Rejections :
       /\ outcome' = [kind |-> "rejected", error |-> error]
       /\ console' = console \o <<[k |-> "geminiApiError", error |-> error]>>
       /\ IF calls < 2
            THEN pc' = "review" /\ UNCHANGED thrown
            ELSE pc' = "innerCatch" /\ thrown' = reviewCodeCatch(error)
  /\ UNCHANGED <<loaderVars, modelFlag, envModel, thinking>>
  /\ UNCHANGED <<apiKey, rulesDirExists, filePath, rulesPrompt, filesToReview,
                 request, result, printed, exitCode>>

\* mutant of GenerateContentRejects: the formatter is called although
\* reviewCode threw
GenerateContentRejectsPrinted ==
  /\ pc = "awaiting"
  /\ \E error \in Rejections :
       /\ outcome' = [kind |-> "rejected", error |-> error]
       /\ thrown' = reviewCodeCatch(error)
       /\ console' = console \o <<[k |-> "geminiApiError", error |-> error]>>
                       \o <<[k |-> "reviewHeader"]>>
  /\ pc' = "innerCatch"
  /\ UNCHANGED <<loaderVars, modelFlag, envModel, thinking>>
  /\ UNCHANGED <<apiKey, rulesDirExists, filePath, rulesPrompt, filesToReview,
                 request, result, printed, exitCode>>

\* generateContent rejects: reviewCode throws the wrapped error
GenerateContentRejects ==
  /\ pc = "awaiting"
  /\ \E error \in Rejections :
       /\ outcome' = [kind |-> "rejected", error |-> error]
       /\ thrown' = reviewCodeCatch(error)
       /\ console' = console \o <<[k |-> "geminiApiError", error |-> error]>>
  /\ pc' = "innerCatch"
  /\ UNCHANGED <<loaderVars, modelFlag, envModel, thinking>>
  /\ UNCHANGED <<apiKey, rulesDirExists, filePath, rulesPrompt, filesToReview,
                 request, result, printed, exitCode>>

\* generateContent resolves: reviewCode parses the text and returns the
\* result or throws
GenerateContentResolves ==
  /\ pc = "awaiting"
  /\ \E response \in Responses :
       LET r == reviewCodeResolved(response, filesToReview) IN
       /\ outcome' = [kind |-> "resolved", response |-> response]
       /\ IF r.ok
            THEN /\ result' = r.result
                 /\ console' = console \o Log("analysisCompleted") \o Log("analysisComplete")
                 /\ pc' = "print"
                 /\ UNCHANGED thrown
            ELSE /\ thrown' = reviewCodeCatch(r.cause)
                 /\ console' = console \o Log("analysisCompleted") \o r.log
                                 \o <<[k |-> "geminiApiError", error |-> r.cause]>>
                 /\ pc' = "innerCatch"
                 /\ UNCHANGED result
  /\ UNCHANGED <<loaderVars, modelFlag, envModel, thinking>>
  /\ UNCHANGED <<apiKey, rulesDirExists, filePath, rulesPrompt, filesToReview,
                 request, printed, exitCode>>

\* ResultFormatter.printResults(result)
PrintResults ==
  /\ pc = "print"
  /\ LET p == printResults(result) IN
     /\ console' = console \o p.out
     /\ IF p.ok
          THEN /\ printed' = printed + 1
               /\ pc' = "decide"
               /\ UNCHANGED thrown
          ELSE /\ thrown' = p.error
               /\ pc' = "innerCatch"
               /\ UNCHANGED printed
  /\ UNCHANGED <<loaderVars, modelFlag, envModel, thinking>>
  /\ UNCHANGED <<apiKey, rulesDirExists, filePath, rulesPrompt, filesToReview,
                 request, outcome, result, exitCode>>

\* result.issues.some(i => i.severity === severity)
someSeverity(issues, severity) ==
  \E n \in 1..Len(issues.a) : Get(issues.a[n], "severity") = Str(severity)

\* mutant of ExitBySeverity: the high branch is tested before the critical one
ExitBySeverityHighFirst ==
  /\ pc = "decide"
  /\ LET hasCritical == someSeverity(result.issues, "critical")
         hasHigh == someSeverity(result.issues, "high")
     IN IF hasHigh THEN Exit(Log("passedWithWarnings"), 0)
        ELSE IF hasCritical THEN Exit(Log("reviewFailed"), 1)
        ELSE Exit(Log("passed"), 0)
  /\ UNCHANGED <<loaderVars, modelFlag, envModel, thinking>>
  /\ UNCHANGED <<apiKey, rulesDirExists, filePath, rulesPrompt, filesToReview,
                 request, outcome, result, thrown, printed>>

\* mutant of ExitBySeverity: high issues fail the review like critical ones
ExitBySeverityStrict ==
  /\ pc = "decide"
  /\ LET hasCritical == someSeverity(result.issues, "critical")
         hasHigh == someSeverity(result.issues, "high")
     IN IF hasCritical \/ hasHigh THEN Exit(Log("reviewFailed"), 1)
        ELSE Exit(Log("passed"), 0)
  /\ UNCHANGED <<loaderVars, modelFlag, envModel, thinking>>
  /\ UNCHANGED <<apiKey, rulesDirExists, filePath, rulesPrompt, filesToReview,
                 request, outcome, result, thrown, printed>>

\* mutant of ExitBySeverity: the critical severity is compared with a
\* misspelt literal
ExitBySeverityMisspelt ==
  /\ pc = "decide"
  /\ LET hasCritical == someSeverity(result.issues, "Critical")
         hasHigh == someSeverity(result.issues, "high")
     IN IF hasCritical THEN Exit(Log("reviewFailed"), 1)
        ELSE IF hasHigh THEN Exit(Log("passedWithWarnings"), 0)
        ELSE Exit(Log("passed"), 0)
  /\ UNCHANGED <<loaderVars, modelFlag, envModel, thinking>>
  /\ UNCHANGED <<apiKey, rulesDirExists, filePath, rulesPrompt, filesToReview,
                 request, outcome, result, thrown, printed>>

\* the exit code based on severity
ExitBySeverity ==
  /\ pc = "decide"
  /\ LET hasCritical == someSeverity(result.issues, "critical")
         hasHigh == someSeverity(result.issues, "high")
     IN IF hasCritical THEN Exit(Log("reviewFailed"), 1)
        ELSE IF hasHigh THEN Exit(Log("passedWithWarnings"), 0)
        ELSE Exit(Log("passed"), 0)
  /\ UNCHANGED <<loaderVars, modelFlag, envModel, thinking>>
  /\ UNCHANGED <<apiKey, rulesDirExists, filePath, rulesPrompt, filesToReview,
                 request, outcome, result, thrown, printed>>

\* the inner catch: the spinner fails and the error is thrown on
InnerCatch ==
  /\ pc = "innerCatch"
  /\ console' = console \o Log("analysisFailed")
  /\ pc' = "outerCatch"
  /\ UNCHANGED <<loaderVars, modelFlag, envModel, thinking>>
  /\ UNCHANGED <<apiKey, rulesDirExists, filePath, rulesPrompt, filesToReview,
                 request, outcome, result, thrown, printed, exitCode>>

\* mutant of OuterCatch: the error is reported and the process exits with 0
OuterCatchExitZero ==
  /\ pc = "outerCatch"
  /\ Exit(<<[k |-> "error",
             shown |-> IF thrown.isError THEN thrown.message ELSE thrown.value]>>, 0)
  /\ UNCHANGED <<loaderVars, modelFlag, envModel, thinking>>
  /\ UNCHANGED <<apiKey, rulesDirExists, filePath, rulesPrompt, filesToReview,
                 request, outcome, result, thrown, printed>>

\* mutant of OuterCatch: the error is reported and the action returns
OuterCatchReturns ==
  /\ pc = "outerCatch"
  /\ console' = console \o <<[k |-> "error",
                               shown |-> IF thrown.isError THEN thrown.message ELSE thrown.value]>>
  /\ pc' = "returned"
  /\ UNCHANGED <<loaderVars, modelFlag, envModel, thinking>>
  /\ UNCHANGED <<apiKey, rulesDirExists, filePath, rulesPrompt, filesToReview,
                 request, outcome, result, thrown, printed, exitCode>>

\* the outer catch: the error is reported and the process exits with 1
OuterCatch ==
  /\ pc = "outerCatch"
  /\ Exit(<<[k |-> "error",
             shown |-> IF thrown.isError THEN thrown.message ELSE thrown.value]>>, 1)
  /\ UNCHANGED <<loaderVars, modelFlag, envModel, thinking>>
  /\ UNCHANGED <<apiKey, rulesDirExists, filePath, rulesPrompt, filesToReview,
                 request, outcome, result, thrown, printed>>

Next ==
  \/ ValidateApiKey
  \/ CheckRulesDir
  \/ LoadRules
  \/ DetermineFiles
  \/ ReviewCodeCall
  \/ GenerateContentRejects
  \/ GenerateContentResolves
  \/ PrintResults
  \/ ExitBySeverity
  \/ InnerCatch
  \/ OuterCatch

Spec == Init /\ [][Next]_vars

\* the runs with the default model; every step that can be taken is taken in
\* the end, the settling of the remote call among them
InitFair == Init /\ modelFlag = Undef /\ envModel = Undef

SpecFair == InitFair /\ [][Next]_vars /\ WF_vars(Next)

\* ------------------------------------------------------------------------
\* The RuleLoader: calls
\* ------------------------------------------------------------------------

\* most loadRules calls on one loader
MaxLoads == 2

Returned(op, args, value) == [op |-> op, args |-> args, value |-> value]

\* loadRules()
LoadRulesCalled ==
  /\ loads < MaxLoads
  /\ LET st == loadRules(disk, rules) IN
       /\ rules' = st.rules
       /\ warnings' = st.log
       /\ returned' = Returned("loadRules", <<>>, st.rules)
  /\ loadedFrom' = disk
  /\ loads' = loads + 1
  /\ UNCHANGED <<actionVars, disk>>

\* mutant of GetRulesByTagsCalled: the rules found are taken out of the
\* collection
GetRulesByTagsCalledTaking ==
  /\ \E tags \in TagLists :
       /\ returned' = Returned("getRulesByTags", tags, getRulesByTags(rules, tags))
       /\ rules' = SelectSeq(rules, LAMBDA rule :
                      \A n \in 1..Len(tags) : ~includes(rule.tags, tags[n]))
  /\ UNCHANGED <<actionVars, disk, warnings, loadedFrom, loads>>

\* getRulesByTags(tags)
GetRulesByTagsCalled ==
  /\ \E tags \in TagLists :
       returned' = Returned("getRulesByTags", tags, getRulesByTags(rules, tags))
  /\ UNCHANGED <<actionVars, disk, rules, warnings, loadedFrom, loads>>

\* compileRulesForPrompt(tags?)
CompileRulesForPromptCalled ==
  /\ \E tags \in {NoTags} \cup {[t |-> "list", a |-> list] : list \in TagLists} :
       returned' = Returned("compileRulesForPrompt", tags, compileRulesForPrompt(rules, tags))
  /\ UNCHANGED <<actionVars, disk, rules, warnings, loadedFrom, loads>>

\* getRules()
GetRulesCalled ==
  /\ returned' = Returned("getRules", <<>>, rules)
  /\ UNCHANGED <<actionVars, disk, rules, warnings, loadedFrom, loads>>

\* between two calls the first entry of the rules directory is deleted
RemoveEntry ==
  /\ Len(disk.entries) > 0
  /\ disk' = [disk EXCEPT !.entries = Tail(@)]
  /\ UNCHANGED <<actionVars, rules, warnings, loadedFrom, loads, returned>>

InitLoader ==
  /\ \E tree \in RuleTrees : NewLoader(tree)
  /\ pc = "start"
  /\ modelFlag = Undef
  /\ envModel = Undef
  /\ thinking = TRUE
  /\ apiKey = Undef
  /\ rulesDirExists = TRUE
  /\ filePath = Undef
  /\ rulesPrompt = <<>>
  /\ filesToReview = <<>>
  /\ request = <<>>
  /\ outcome = None
  /\ result = None
  /\ thrown = NoError
  /\ printed = 0
  /\ console = <<>>
  /\ exitCode = <<>>

NextLoader ==
  \/ LoadRulesCalled
  \/ GetRulesByTagsCalled
  \/ CompileRulesForPromptCalled
  \/ GetRulesCalled
  \/ RemoveEntry

SpecLoader == InitLoader /\ [][NextLoader]_vars

\* ------------------------------------------------------------------------
\* Reviewers that differ in enableDeepThinking
\* ------------------------------------------------------------------------

\* most reviewers called with the same files and rules
MaxReviewers == 2

\* another reviewer is built from the configuration with enableDeepThinking
\* the other way round, and is about to review the same files
OtherReviewer ==
  /\ pc = "awaiting"
  /\ Len(request) < MaxReviewers
  /\ thinking' = ~thinking
  /\ pc' = "review"
  /\ UNCHANGED <<loaderVars, modelFlag, envModel>>
  /\ UNCHANGED <<apiKey, rulesDirExists, filePath, rulesPrompt, filesToReview,
                 request, outcome, result, thrown, printed, console, exitCode>>

\* the files and rules are there, reviewCode is about to be called
InitReviewers ==
  /\ pc = "review"
  /\ modelFlag \in ModelFlagValues
  /\ envModel \in EnvModelValues
  /\ thinking \in BOOLEAN
  /\ NewLoader(Dir("rules", TRUE, <<>>))
  /\ apiKey \in {key \in ApiKeyValues : Truthy(key)}
  /\ rulesDirExists = TRUE
  /\ filePath \in {path \in FilePathValues : Truthy(path) /\ loadSingleFile(path.s).ok}
  /\ rulesPrompt \in RulesPrompts
  /\ filesToReview = loadSingleFile(filePath.s).files
  /\ request = <<>>
  /\ outcome = None
  /\ result = None
  /\ thrown = NoError
  /\ printed = 0
  /\ console = <<>>
  /\ exitCode = <<>>

NextReviewers ==
  \/ ReviewCodeCall
  \/ OtherReviewer

SpecReviewers == InitReviewers /\ [][NextReviewers]_vars

\* ------------------------------------------------------------------------
\* A caller that changes the array it was handed
\* ------------------------------------------------------------------------

\* a rule object the caller made up
StrayRule ==
  [id |-> Str("stray"), title |-> Str("Stray"), type |-> Str("requirement"),
   impact |-> Str("LOW"), category |-> Str("general"), tags |-> Tags(<<"react">>),
   content |-> Text("Not from a rule file")]

\* what pop(), push(rule) and [0] = rule make of the array
Mutations(array) ==
  (IF Len(array) > 0 THEN {SubSeq(array, 1, Len(array) - 1)} ELSE {})
    \cup (IF \A n \in 1..Len(array) : array[n] # StrayRule
            THEN {Append(array, StrayRule)} ELSE {})
    \cup (IF Len(array) > 0 /\ array[1] # StrayRule
            THEN {[array EXCEPT ![1] = StrayRule]} ELSE {})

\* loadRules and getRules return this.rules itself, so the array the caller
\* holds after such a call is the collection of the loader
HoldsCollection == returned.op \in {"loadRules", "getRules", "mutated"}

\* the caller changes the array it got from loadRules or getRules
CallerMutates ==
  /\ HoldsCollection
  /\ \E changed \in Mutations(returned.value) :
       /\ rules' = changed
       /\ returned' = Returned("mutated", <<>>, changed)
  /\ UNCHANGED <<actionVars, disk, warnings, loadedFrom, loads>>

\* the rules directories of the caller
CallerTrees ==
  {tree \in RuleTrees :
     \A n \in 1..Len(tree.entries) :
       tree.entries[n] \in {PrinciplesFile, RequirementsFile, MinimalFile, NoIdFile}}

InitCaller == InitLoader /\ disk \in CallerTrees

NextCaller ==
  \/ LoadRulesCalled
  \/ GetRulesByTagsCalled
  \/ CompileRulesForPromptCalled
  \/ GetRulesCalled
  \/ RemoveEntry
  \/ CallerMutates

SpecCaller == InitCaller /\ [][NextCaller]_vars

\* ------------------------------------------------------------------------
\* Properties
\* ------------------------------------------------------------------------

\* the process has exited with this code
ExitedWith(code) == pc = "exited" /\ exitCode = <<code>>

\* reviewCode returned a result and printResults returned
ReviewCompleted == result # None /\ printed = 1

\* result.issues holds an issue of this severity
HasIssue(severity) ==
  /\ result.issues.t = "arr"
  /\ \E n \in 1..Len(result.issues.a) :
       Member("severity", Str(severity)) \in
         {result.issues.a[n].o[m] : m \in 1..Len(result.issues.a[n].o)}

LastLine == console[Len(console)]

\* C1: after a completed review whose result holds a critical issue the
\* process exits with code 1, whatever the other issues are
C1_CriticalExitsOne ==
  (pc = "exited" /\ ReviewCompleted /\ HasIssue("critical")) => exitCode = <<1>>

C1_Witness ==
  /\ ExitedWith(1) /\ ReviewCompleted
  /\ HasIssue("critical") /\ HasIssue("high")

KeyMissing == ~Truthy(apiKey)

RulesDirMissing == ~rulesDirExists

NoFilePath == ~Truthy(filePath)

FileNotFound == Truthy(filePath) /\ filePath.s \notin DOMAIN Disk

\* a processing failure: reviewCode or printResults threw
ProcessingFailed == thrown # NoError

\* C4: a run in which startup or processing fails never exits with code 0,
\* and when it has exited the code is 1
C4_FailureExitsOne ==
  (KeyMissing \/ RulesDirMissing \/ NoFilePath \/ FileNotFound \/ ProcessingFailed)
    => (0 \notin {exitCode[n] : n \in 1..Len(exitCode)}
        /\ (pc = "exited" => exitCode = <<1>>))

\* printResults threw on the result reviewCode returned
C4_Witness ==
  /\ ExitedWith(1) /\ result # None /\ printed = 0
  /\ thrown.isError /\ thrown.name = "TypeError"

\* C5: in a run where the API key, the rules directory or the target file
\* is missing no generateContent call is ever issued
C5_NoCallOnConfigError ==
  (KeyMissing \/ RulesDirMissing \/ NoFilePath \/ FileNotFound) => calls = 0

C5_Witness ==
  /\ ExitedWith(1) /\ ~KeyMissing /\ ~RulesDirMissing /\ FileNotFound
  /\ calls = 0

\* C6: reviewCode issues one generateContent call, not more, and when the
\* call has ended in a result or in an error exactly one was issued
C6_ExactlyOneCall ==
  /\ calls <= 1
  /\ (outcome # None \/ result # None \/ pc \in {"awaiting", "print", "decide", "innerCatch"})
       => calls = 1

\* the response did not parse, reviewCode threw and the run is over
C6_Witness ==
  /\ pc = "exited" /\ calls = 1 /\ outcome # None
  /\ outcome.kind = "resolved" /\ ~JSONParse(outcome.response.text).ok
  /\ thrown # NoError

\* the call resolved with this response
Resolved == outcome # None /\ outcome.kind = "resolved"

Rejected == outcome # None /\ outcome.kind = "rejected"

ResponseText == outcome.response.text

\* the value the response text parses to
Payload == JSONParse(ResponseText).v

\* the message holds a non-empty leading piece of the text
ContainsPreview(message, text) ==
  \/ Len(text) = 0
  \/ \E n \in 1..Len(text) : \E at \in 1..(Len(message) - n + 1) :
       SubSeq(message, at, at + n - 1) = SubSeq(text, 1, n)

\* the errors reviewCode throws when the call itself fails
TransportFailures == {reviewCodeCatch(error) : error \in Rejections}

\* C7: when the response text is not valid JSON reviewCode returns no
\* result and throws an error that differs from every error of a failed
\* call and whose message holds a preview of the text
C7_ParseErrorWithPreview ==
  (Resolved /\ ~JSONParse(ResponseText).ok)
    => /\ result = None
       /\ thrown.isError
       /\ thrown \notin TransportFailures
       /\ ContainsPreview(thrown.message, ResponseText)

\* C8: when generateContent fails with an error, reviewCode returns no
\* result and throws an error whose message is 'Failed to review code: '
\* followed by the message of that error
C8_FailedCallWrapped ==
  (Rejected /\ outcome.error.isError)
    => /\ result = None
       /\ thrown.isError
       /\ thrown.message = Text("Failed to review code: ") \o outcome.error.message

C8_Witness ==
  /\ pc = "exited" /\ Rejected /\ outcome.error.isError
  /\ thrown.message = Text("Failed to review code: ") \o Text("fetch failed")

\* reviewCode returned a result for a payload that is a JSON object
ObjectAccepted == Resolved /\ JSONParse(ResponseText).ok /\ Payload.t = "obj" /\ result # None

\* the member of the payload with this key is present
Present(key) == \E m \in 1..Len(Payload.o) : Payload.o[m].k = key

\* the values of a JSON text that JavaScript takes as false
Falsy == {JNull, Bool(FALSE), Num(0), Str("")}

\* C9 as stated: issues, summary and overallScore of the result are the
\* members of the payload when present and [], 'No summary provided' and 0
\* when absent
C9_DefaultsWhenAbsent ==
  ObjectAccepted =>
    /\ result.issues = IF Present("issues") THEN Get(Payload, "issues") ELSE Arr(<<>>)
    /\ result.summary = IF Present("summary") THEN Get(Payload, "summary") ELSE NoSummary
    /\ result.overallScore =
         IF Present("overallScore") THEN Get(Payload, "overallScore") ELSE Num(0)

\* C9 as amended: the members of the payload when present and not falsy
\* (null, false, 0, ''), and [], 'No summary provided' and 0 when absent or
\* falsy
C9_DefaultsWhenAbsentOrFalsy ==
  ObjectAccepted =>
    /\ result.issues =
         IF Present("issues") /\ Get(Payload, "issues") \notin Falsy
           THEN Get(Payload, "issues") ELSE Arr(<<>>)
    /\ result.summary =
         IF Present("summary") /\ Get(Payload, "summary") \notin Falsy
           THEN Get(Payload, "summary") ELSE NoSummary
    /\ result.overallScore =
         IF Present("overallScore") /\ Get(Payload, "overallScore") \notin Falsy
           THEN Get(Payload, "overallScore") ELSE Num(0)

\* a payload with an empty summary and one without a summary
C9_Witness ==
  /\ ObjectAccepted
  /\ result.summary = NoSummary
  /\ Present("issues") /\ result.issues = Get(Payload, "issues")
  /\ ~Present("summary") \/ Get(Payload, "summary") = Str("")

\* the payload is an object whose issues member is an array of issue objects
IssuesAccepted ==
  /\ ObjectAccepted
  /\ Get(Payload, "issues").t = "arr"
  /\ \A n \in 1..Len(Get(Payload, "issues").a) : Get(Payload, "issues").a[n].t = "obj"

RECURSIVE SumBuckets(_, _)
\* the sizes of the first n buckets of SeverityOrder, added up
SumBuckets(grouped, n) ==
  IF n = 0 THEN 0 ELSE SumBuckets(grouped, n - 1) + Len(grouped[SeverityOrder[n]])

\* C10: for an accepted response with N issues the result has those N
\* issues in their order, every issue is in one of the four buckets of
\* groupBySeverity and the bucket sizes add up to N
C10_IssuesPartitioned ==
  IssuesAccepted =>
    LET issues == Get(Payload, "issues").a
        grouped == groupBySeverity(result.issues.a)
    IN /\ result.issues.t = "arr"
       /\ result.issues.a = issues
       /\ \A n \in 1..Len(issues) :
            Cardinality({s \in DOMAIN grouped :
                           \E m \in 1..Len(grouped[s]) : grouped[s][m] = issues[n]}) = 1
       /\ SumBuckets(grouped, Len(SeverityOrder)) = Len(issues)

\* ------------------------------------------------------------------------
\* Rule files without id or title
\* ------------------------------------------------------------------------

\* a markdown file that can be read and parsed and whose frontmatter has no
\* id or no title
LacksIdOrTitle(entry) ==
  /\ entry.kind = "file"
  /\ entry.ext = ".md"
  /\ entry.readable
  /\ entry.text.yaml # "invalid"
  /\ \/ entry.text.yaml = "none"
     \/ ~HasKey(entry.text.data, "id")
     \/ ~HasKey(entry.text.data, "title")

RECURSIVE WithoutSkipped(_)
\* the directory with every such file taken out, at every depth
WithoutSkipped(dir) ==
  LET kept == SelectSeq(dir.entries, LAMBDA e : ~LacksIdOrTitle(e)) IN
  [dir EXCEPT !.entries =
     [n \in 1..Len(kept) |->
        IF kept[n].kind = "dir" THEN WithoutSkipped(kept[n]) ELSE kept[n]]]

Loaded == loads > 0 /\ returned.op = "loadRules"

\* C11: after loadRules the collection is what the same pass yields over the
\* directory with every file lacking id or title taken out: such a file adds
\* no rule, and the files scanned before and after it are loaded all the same;
\* every rule of the collection has an id and a title
C11_SkippedFilesAddNothing ==
  Loaded =>
    /\ rules = scanDirectory(WithoutSkipped(loadedFrom), Scan(<<>>, <<>>)).rules
    /\ returned.value = rules
    /\ \A n \in 1..Len(rules) : Truthy(rules[n].id) /\ Truthy(rules[n].title)

\* a file without id lies between two loadable files of one pass
C11_Witness ==
  /\ Loaded
  /\ loadedFrom.entries = <<PrinciplesFile, Dir("typescript", TRUE, <<NoIdFile, TypeSafetyFile>>)>>
  /\ Len(rules) = 2
  /\ \E n \in 1..Len(warnings) : warnings[n] = [k |-> "skipping", name |-> NoIdFile.name]

\* ------------------------------------------------------------------------
\* Rules by tag
\* ------------------------------------------------------------------------

\* the tag set of a rule
TagSet(rule) == {rule.tags.a[n].s : n \in 1..Len(rule.tags.a)}

\* the positions of the rules that share a tag with the list
Matching(list) ==
  {n \in 1..Len(rules) : TagSet(rules[n]) \cap {list[m] : m \in 1..Len(list)} # {}}

\* the i-th smallest member of a set of numbers
Nth(S, i) == CHOOSE n \in S : Cardinality({m \in S : m < n}) = i - 1

\* C12: getRulesByTags(tags) returns the loaded rules whose tag set shares at
\* least one tag with the list, each once and in load order, and no other rule
C12_AnyMatchInLoadOrder ==
  returned.op = "getRulesByTags" =>
    /\ Len(returned.value) = Cardinality(Matching(returned.args))
    /\ \A i \in 1..Len(returned.value) :
         returned.value[i] = rules[Nth(Matching(returned.args), i)]

\* two of three loaded rules carry one of the two tags each, the third none
C12_Witness ==
  /\ returned.op = "getRulesByTags"
  /\ returned.args = <<"react", "typescript">>
  /\ Len(rules) = 3
  /\ Len(returned.value) = 2
  /\ TagSet(returned.value[1]) \cap {"react", "typescript"} = {"react"}
  /\ TagSet(returned.value[2]) \cap {"react", "typescript"} = {"typescript"}

\* ------------------------------------------------------------------------
\* The compiled prompt
\* ------------------------------------------------------------------------

Compiled == returned.op = "compileRulesForPrompt"

\* the positions of the rules the call works on
Used == IF returned.args = NoTags THEN 1..Len(rules) ELSE Matching(returned.args.a)

UsedOfType(type) == {n \in Used : rules[n].type = Str(type)}

\* the positions of the output that hold such a chunk
ChunksOf(kind) == {i \in 1..Len(returned.value) : returned.value[i].k = kind}

HasHeader(header) == \E i \in 1..Len(returned.value) : returned.value[i] = header[1]

\* C13: compileRulesForPrompt returns the fallback string, which is not the
\* empty string, whenever the rule set it works on is empty: nothing is loaded,
\* or tags are given and no loaded rule carries any of them
C13_FallbackWhenEmpty ==
  (Compiled /\ Used = {}) => returned.value = FallbackPrompt /\ returned.value # <<>>

\* rules are loaded, and none of them carries the tag asked for
C13_Witness ==
  /\ Compiled
  /\ Len(rules) > 0
  /\ returned.args = [t |-> "list", a |-> <<"python">>]
  /\ returned.value = FallbackPrompt

\* C14: in the output of compileRulesForPrompt every principle block comes
\* before every requirement block, there is one block for each principle and
\* each requirement of the rule set used, and a section header is there only
\* if the rule set used has a rule of that type
C14_PrinciplesBeforeRequirements ==
  Compiled =>
    /\ \A i \in ChunksOf("principle") : \A j \in ChunksOf("requirement") : i < j
    /\ Cardinality(ChunksOf("principle")) = Cardinality(UsedOfType("principle"))
    /\ Cardinality(ChunksOf("requirement")) = Cardinality(UsedOfType("requirement"))
    /\ HasHeader(PrinciplesHeader) => UsedOfType("principle") # {}
    /\ HasHeader(RequirementsHeader) => UsedOfType("requirement") # {}

\* a requirement is loaded before a principle and written after it
C14_Witness ==
  /\ Compiled
  /\ Len(rules) = 2
  /\ rules[1].type = Str("requirement")
  /\ rules[2].type = Str("principle")
  /\ returned.value = PrinciplesHeader \o <<principleBlock(rules[2])>>
                        \o RequirementsHeader \o <<requirementBlock(rules[1])>>

\* ------------------------------------------------------------------------
\* The loaded collection
\* ------------------------------------------------------------------------

\* the rule of a file that has only id "x" and title "T" in its frontmatter
MinimalRule ==
  [id |-> Str("x"), title |-> Str("T"), type |-> Str("principle"),
   impact |-> Str("MEDIUM"), category |-> Str("general"), tags |-> Arr(<<>>),
   content |-> Text("Body")]

\* C15: a rule file with id and title and without type, impact, category and
\* tags loads with type 'principle', impact 'MEDIUM', category 'general', no
\* tags, and the body without its leading and trailing whitespace as content
C15_DefaultsForOmittedFields ==
  Loaded =>
    /\ \A n \in 1..Len(rules) : rules[n].id = MinimalRule.id => rules[n] = MinimalRule
    /\ (Len(loadedFrom.entries) > 0 /\ loadedFrom.entries[1] = MinimalFile)
         => (Len(rules) > 0 /\ rules[1] = MinimalRule)

\* the file is loaded, and its body had whitespace at both ends
C15_Witness ==
  /\ Loaded
  /\ loadedFrom.entries = <<MinimalFile>>
  /\ rules = <<MinimalRule>>
  /\ MinimalFile.text.body # MinimalRule.content
  /\ ~HasKey(MinimalFile.text.data, "type")
  /\ ~HasKey(MinimalFile.text.data, "tags")

\* C16: after any number of loadRules calls the collection holds the rules of
\* the latest pass over the directory and nothing of the passes before it
C16_CollectionIsLatestPass ==
  loads > 0 => rules = scanDirectory(loadedFrom, Scan(<<>>, <<>>)).rules

\* the second load of an unchanged directory that has rules
C16_Witness ==
  /\ loads = 2
  /\ returned.op = "loadRules"
  /\ loadedFrom = disk
  /\ disk \in RuleTrees
  /\ Len(rules) = 2

DocumentedTypes == {Str("principle"), Str("requirement")}

DocumentedImpacts == {Str("LOW"), Str("MEDIUM"), Str("HIGH"), Str("CRITICAL")}

\* C17: every rule of the collection after loadRules has type principle or
\* requirement and impact LOW, MEDIUM, HIGH or CRITICAL
C17_TypeAndImpactValid ==
  Loaded =>
    \A n \in 1..Len(rules) :
      rules[n].type \in DocumentedTypes /\ rules[n].impact \in DocumentedImpacts

\* C18: after loadRules no two rules of the collection have the same id
C18_IdsUnique ==
  Loaded => \A i, j \in 1..Len(rules) : rules[i].id = rules[j].id => i = j

\* ------------------------------------------------------------------------
\* The two groups of the formatter
\* ------------------------------------------------------------------------

\* where printResults wrote the line of this kind
Pos(kind) == CHOOSE i \in 1..Len(console) : console[i].k = kind

\* the lines between "From Team Rules" and "AI Insights", and those from
\* there to the footer
RuleSection == {i \in 1..Len(console) : Pos("aiInsightsCount") < i /\ i < Pos("aiInsights")}

AiSection == {i \in 1..Len(console) : Pos("aiInsights") < i /\ i < Pos("footer")}

IssueLines(section) == {i \in section : console[i].k = "issue"}

HeaderLines(section) == {i \in section : console[i].k = "severityHeader"}

Rank(severity) == CHOOSE n \in 1..Len(SeverityOrder) : SeverityOrder[n] = severity

\* the severity headers of a section come in the order critical, high,
\* medium, low, and each issue stands under the header of its severity
InSeverityOrder(section) ==
  /\ \A i, j \in HeaderLines(section) :
       i < j => Rank(console[i].severity) < Rank(console[j].severity)
  /\ \A i \in IssueLines(section) :
       \E h \in HeaderLines(section) :
         /\ h < i
         /\ \A g \in HeaderLines(section) : g < i => g <= h
         /\ Get(console[i].issue, "severity") = Str(console[h].severity)

\* how many issues of the result have a ruleId the predicate holds for
CountRuleId(P(_)) ==
  Cardinality({n \in 1..Len(result.issues.a) : P(Get(result.issues.a[n], "ruleId"))})

\* every issue line stands in one of the two sections, the counts of the two
\* groups add up to the number of issues, and both sections are in order
GroupsCoverAndInOrder ==
  /\ IssueLines(1..Len(console)) = IssueLines(RuleSection) \cup IssueLines(AiSection)
  /\ console[Pos("fromTeamRules")].count + console[Pos("aiInsights")].count
       = Len(result.issues.a)
  /\ console[Pos("aiInsightsCount")].count = console[Pos("aiInsights")].count
  /\ InSeverityOrder(RuleSection)
  /\ InSeverityOrder(AiSection)

AbsentOrNull(ruleId) == ruleId \in {Undef, JNull}

\* C19 as stated: the rule-based group holds the issues whose ruleId is
\* present, the AI group those whose ruleId is absent or null
C19_SplitByRuleIdPresence ==
  ReviewCompleted =>
    /\ GroupsCoverAndInOrder
    /\ console[Pos("aiInsights")].count = CountRuleId(AbsentOrNull)
    /\ \A i \in IssueLines(RuleSection) : ~AbsentOrNull(Get(console[i].issue, "ruleId"))
    /\ \A i \in IssueLines(AiSection) : AbsentOrNull(Get(console[i].issue, "ruleId"))

Falsey(ruleId) == ~Truthy(ruleId)

\* C19: the rule-based group holds the issues whose ruleId is truthy (a
\* non-empty string), the AI group those whose ruleId is absent, null or
\* empty; the groups are disjoint and hold every issue between them, whether
\* or not a rule of that id was loaded, and each group is written in the
\* order critical, high, medium, low
C19_SplitByRuleIdValue ==
  ReviewCompleted =>
    /\ GroupsCoverAndInOrder
    /\ console[Pos("aiInsights")].count = CountRuleId(Falsey)
    /\ console[Pos("fromTeamRules")].count = CountRuleId(Truthy)
    /\ \A i \in IssueLines(RuleSection) :
         Truthy(Get(console[i].issue, "ruleId")) /\ ~console[i].isAiDiscovery
    /\ \A i \in IssueLines(AiSection) :
         Falsey(Get(console[i].issue, "ruleId")) /\ console[i].isAiDiscovery

\* no rule is loaded; the issue that names a rule is in the rule section and
\* the one with the empty ruleId, first in the result, in the AI section
C19_Witness ==
  /\ ReviewCompleted
  /\ rulesPrompt = FallbackPrompt
  /\ result.issues = Arr(<<Issue(Str("low"), Str("")), Issue(Str("critical"), Str("no-such-rule"))>>)
  /\ \E i \in IssueLines(RuleSection) : console[i].issue = result.issues.a[2]
  /\ \E i \in IssueLines(AiSection) : console[i].issue = result.issues.a[1]

\* ------------------------------------------------------------------------
\* The model identifier
\* ------------------------------------------------------------------------

FlagGiven == modelFlag # Undef

\* GEMINI_MODEL is set to a model name
EnvSet == envModel \notin {Undef, Str("")}

\* C20: every request goes to the model of the --model flag when the flag is
\* given, else to the model of GEMINI_MODEL when that is set to a name, else
\* to the built-in default; the flag wins over the environment variable
C20_FlagThenEnvThenDefault ==
  \A n \in 1..Len(request) :
    /\ FlagGiven => request[n].model = modelFlag
    /\ (~FlagGiven /\ EnvSet) => request[n].model = envModel
    /\ (~FlagGiven /\ ~EnvSet) => request[n].model = Str("gemini-2.0-flash-lite")

\* flag and environment variable name different models, and a request is sent
C20_Witness ==
  /\ Len(request) = 1
  /\ FlagGiven
  /\ EnvSet
  /\ modelFlag # envModel
  /\ request[1].model = modelFlag

\* ------------------------------------------------------------------------
\* A response cut off at the output-token limit
\* ------------------------------------------------------------------------

Truncated == Resolved /\ outcome.response.finishReason = "MAX_TOKENS"

HasChunk(message, text) == \E n \in 1..Len(message) : message[n] = text[1]

\* C21: when the response was cut off at the output-token limit, reviewCode
\* returns no result and fails with an error that is not the JSON parse
\* failure
C21_TruncationDetected ==
  Truncated =>
    /\ result = None
    /\ thrown.isError
    /\ ~HasChunk(thrown.message, Text("Invalid JSON response from Gemini"))

\* ------------------------------------------------------------------------
\* Every rule in the compiled prompt
\* ------------------------------------------------------------------------

\* the blocks of one section of the output, in their order
Blocks(kind) == SelectSeq(returned.value, LAMBDA chunk : chunk.k = kind)

\* C22: compileRulesForPrompt over a rule set that is not empty writes one
\* block for every rule of the set: the principle blocks are the principles
\* of the set in load order, the requirement blocks its requirements in load
\* order, and every rule of the set is one or the other
C22_EveryRuleRenderedOnce ==
  (Compiled /\ Used # {}) =>
    /\ Len(Blocks("principle")) = Cardinality(UsedOfType("principle"))
    /\ \A i \in 1..Len(Blocks("principle")) :
         Blocks("principle")[i] = principleBlock(rules[Nth(UsedOfType("principle"), i)])
    /\ Len(Blocks("requirement")) = Cardinality(UsedOfType("requirement"))
    /\ \A i \in 1..Len(Blocks("requirement")) :
         Blocks("requirement")[i] = requirementBlock(rules[Nth(UsedOfType("requirement"), i)])
    /\ Len(Blocks("principle")) + Len(Blocks("requirement")) = Cardinality(Used)

\* ------------------------------------------------------------------------
\* Directories and entries that fail
\* ------------------------------------------------------------------------

Unreadable(entry) == entry.kind = "dir" /\ ~entry.readable

RECURSIVE WithoutUnreadable(_)
\* the directory with every sub-directory that cannot be read taken out
WithoutUnreadable(dir) ==
  LET kept == SelectSeq(dir.entries, LAMBDA e : ~Unreadable(e)) IN
  [dir EXCEPT !.entries =
     [n \in 1..Len(kept) |->
        IF kept[n].kind = "dir" THEN WithoutUnreadable(kept[n]) ELSE kept[n]]]

\* the scan came by a sub-directory it could not read
RECURSIVE MeetsUnreadable(_)
MeetsUnreadable(dir) ==
  \E n \in 1..Len(dir.entries) :
    /\ \A m \in 1..(n - 1) : dir.entries[m].kind # "broken"
    /\ \/ Unreadable(dir.entries[n])
       \/ dir.entries[n].kind = "dir" /\ dir.entries[n].readable
            /\ MeetsUnreadable(dir.entries[n])

WarnedOf(kind, name) == \E n \in 1..Len(warnings) : warnings[n] = [k |-> kind, name |-> name]

\* C23: a sub-directory that cannot be read is logged and adds nothing, and
\* the collection after loadRules is what the pass yields without it: the
\* files of the other directories, those after it in its parent among them,
\* are loaded
C23_UnreadableSubDirSkipped ==
  Loaded =>
    /\ rules = scanDirectory(WithoutUnreadable(loadedFrom), Scan(<<>>, <<>>)).rules
    /\ MeetsUnreadable(loadedFrom) =>
         \E n \in 1..Len(warnings) : warnings[n].k = "couldNotScan"

\* the directory that cannot be read comes first, a rule file after it
C23_Witness ==
  /\ Loaded
  /\ loadedFrom.entries = <<Dir("locked", FALSE, <<RequirementsFile>>), PrinciplesFile>>
  /\ Len(rules) = 1
  /\ rules[1].id = Str("react-performance-principles")
  /\ WarnedOf("couldNotScan", "locked")

\* ------------------------------------------------------------------------
\* Formatting after the remote call
\* ------------------------------------------------------------------------

\* the lines of this kind on the console
LinesOf(kind) == {i \in 1..Len(console) : console[i].k = kind}

\* how often printResults was entered: its first line is the review header
Invocations == Cardinality(LinesOf("reviewHeader"))

\* reviewCode threw: the call failed, or its response was not accepted
ReviewFailed == Rejected \/ (Resolved /\ result = None)

\* C24: printResults is entered at most once in a run, only after the remote
\* call has resolved and reviewCode has returned a result, and never in a run
\* where reviewCode failed
C24_PrintOnlyAfterResult ==
  /\ Invocations <= 1
  /\ printed <= Invocations
  /\ Invocations = 1 =>
       /\ Resolved
       /\ result # None
       /\ \A i \in LinesOf("reviewHeader") : \A j \in LinesOf("analysisCompleted") : j < i
  /\ ReviewFailed => Invocations = 0

\* a run that printed its result and exited
C24_Witness ==
  /\ pc = "exited"
  /\ ReviewCompleted
  /\ Invocations = 1
  /\ Len(request) = 1

\* ------------------------------------------------------------------------
\* enableDeepThinking and the request
\* ------------------------------------------------------------------------

\* what reviewCode logged about deep thinking, call by call
ThinkingLogged ==
  LET lines == SelectSeq(console, LAMBDA line : line.k = "deepThinking") IN
  [n \in 1..Len(lines) |-> lines[n].enabled]

AsLoaded == IF loads = 0 THEN <<>> ELSE scanDirectory(loadedFrom, Scan(<<>>, <<>>)).rules

\* C26: whatever the caller did to an array getRules returned, getRules,
\* getRulesByTags and compileRulesForPrompt yield what they yield for the
\* rules as the last loadRules built them
C26_GetRulesIsSnapshot ==
  /\ returned.op = "getRules" => returned.value = AsLoaded
  /\ returned.op = "getRulesByTags" =>
       returned.value = getRulesByTags(AsLoaded, returned.args)
  /\ returned.op = "compileRulesForPrompt" =>
       returned.value = compileRulesForPrompt(AsLoaded, returned.args)

\* ------------------------------------------------------------------------
\* Responses that parse
\* ------------------------------------------------------------------------

\* C27: for every response text JSON.parse accepts, reviewCode returns a
\* result
C27_ParsedTextGivesResult ==
  (Resolved /\ JSONParse(ResponseText).ok) => result # None

\* ------------------------------------------------------------------------
\* Entries that fail within a directory
\* ------------------------------------------------------------------------

\* statSync, readFileSync or the frontmatter parser throws on the entry
Failing(entry) ==
  \/ entry.kind = "broken"
  \/ entry.kind = "file" /\ entry.ext = ".md"
       /\ (~entry.readable \/ entry.text.yaml = "invalid")

RECURSIVE WithoutFailing(_)
\* the directory with every such entry taken out, at every depth
WithoutFailing(dir) ==
  LET kept == SelectSeq(dir.entries, LAMBDA e : ~Failing(e)) IN
  [dir EXCEPT !.entries =
     [n \in 1..Len(kept) |->
        IF kept[n].kind = "dir" THEN WithoutFailing(kept[n]) ELSE kept[n]]]

\* C28: an entry that cannot be stat'ed or loaded adds nothing and stops
\* nothing: the collection after loadRules is what the pass yields over the
\* directory without such entries
C28_FailingEntrySkipped ==
  Loaded => rules = scanDirectory(WithoutFailing(loadedFrom), Scan(<<>>, <<>>)).rules

\* ------------------------------------------------------------------------
\* Queries change nothing
\* ------------------------------------------------------------------------

Query == GetRulesByTagsCalled \/ CompileRulesForPromptCalled

VerdictKinds ==
  {"reviewFailed", "passedWithWarnings", "passed", "error",
   "apiKeyRequired", "rulesDirNotFound", "filePathRequired"}

Verdicts == {i \in 1..Len(console) : console[i].k \in VerdictKinds}

\* process.exit was called once, with 0 or 1, after one verdict line
ExitedOnce ==
  /\ pc = "exited"
  /\ Len(exitCode) = 1
  /\ exitCode[1] \in {0, 1}
  /\ Cardinality(Verdicts) = 1
  /\ Verdicts = {Len(console)}

\* C30: when the remote call settles, every run of the action ends in
\* process.exit with code 0 or 1, having reported one verdict, and stays there
C30_EveryRunExits == <>[]ExitedOnce

\* a run that went through the review and exited with a warning
C30_Witness ==
  /\ ExitedOnce
  /\ exitCode = <<0>>
  /\ Len(request) = 1
  /\ printed = 1
  /\ console[Len(console)].k = "passedWithWarnings"

====
